---- MODULE Spec2Model ----
(***************************************************************************)
(* Claimify extraction pipeline (src/pipeline.py): ClaimifyPipeline.run    *)
(* segments a text, starts one thread per sentence, each thread runs       *)
(* Selection -> Disambiguation -> Decomposition against the structured     *)
(* completion client and extends the shared all_claims list under          *)
(* all_claims_lock; run joins the threads and de-duplicates.               *)
(*                                                                         *)
(* Sentence indices are 0-based as in the source.  Strings are TLA+        *)
(* strings; Python's None is the token None.                               *)
(***************************************************************************)
EXTENDS Integers, Sequences, FiniteSets, TLC

(* ------------------------------ bounds -------------------------------- *)

\* most sentences a text is segmented into
MaxSentences == 2

\* most paragraphs (newline separated pieces) of a text
MaxParagraphs == 2

\* longest sentence list a function is called with directly
MaxListLen == 4

\* largest window size (p, f) a function is called with directly
MaxWindow == 3

\* calls of make_structured_request made by one thread
MaxClientCalls == 2

(* ----------------------------- constants ------------------------------ *)

\* process_sentence: create_context_for_sentence(sentences, i, p=5, f=5)
P_PRECEDING == 5

F_FOLLOWING == 5

None == "<None>"

\* the Literal values of UrvalsSvar.slutlig_bedömning
POSITIVE == "Innehåller ett specifikt och verifierbart påstående"

NEGATIVE == "Innehåller INTE ett specifikt och verifierbart påstående"

\* the sentinels the interpreters compare against
UNCHANGED_SENTINEL == "förblir oförändrad"

CANNOT_SENTINEL == "Kan inte avkontextualiseras"

(* ------------------------------ inputs -------------------------------- *)

\* the sentences of a text, named in their order of appearance (a text of
\* n sentences is s1 .. sn), and the whitespace token
SentenceNames == <<"s1", "s2", "s3", "s4", "s5", "s6">>

WS == " "

Range(s) == {s[k] : k \in 1..Len(s)}

\* a paragraph (the tokens between two newlines of the text) that holds no
\* sentence: the empty line and the whitespace line
BlankParagraphs == {<<>>, <<WS>>}

\* a paragraph holding the sentences k..j, with or without indentation
ParagraphsOf(k, j) ==
  {SubSeq(SentenceNames, k, j), <<WS>> \o SubSeq(SentenceNames, k, j)}

\* the texts of at most m paragraphs whose sentences are named from k on
RECURSIVE TextsFrom(_, _)
TextsFrom(k, m) ==
  IF m = 0 THEN {<<>>}
  ELSE {<<>>}
       \cup {<<para>> \o t : para \in BlankParagraphs, t \in TextsFrom(k, m - 1)}
       \cup UNION {{<<para>> \o t : para \in ParagraphsOf(k, j),
                                   t \in TextsFrom(j + 1, m - 1)} :
                      j \in k..MaxSentences}

\* text.split('\n') always has at least one piece
Texts == TextsFrom(1, MaxParagraphs) \ {<<>>}

\* nltk.sent_tokenize(para): the sentences of the paragraph, in order
RECURSIVE sent_tokenize(_)
sent_tokenize(para) ==
  IF para = <<>> THEN <<>>
  ELSE IF Head(para) = WS THEN sent_tokenize(Tail(para))
       ELSE <<Head(para)>> \o sent_tokenize(Tail(para))

\* str.strip() of a paragraph is falsy
StripIsEmpty(para) == \A k \in 1..Len(para) : para[k] = WS

RECURSIVE split_into_sentences(_)
split_into_sentences(text) ==
  IF text = <<>> THEN <<>>
  ELSE (IF ~StripIsEmpty(Head(text)) THEN sent_tokenize(Head(text)) ELSE <<>>)
       \o split_into_sentences(Tail(text))

\* variant: the text is tested without strip()
TextIsBlank_no_strip(text) == text = <<<<>>>>

\* text_to_process.strip() is falsy
TextIsBlank(text) == \A k \in 1..Len(text) : StripIsEmpty(text[k])

Threads == 0..(MaxSentences - 1)

(* ---------------------- completion responses -------------------------- *)

\* make_structured_request returned None (refusal, API error)
NullResponse == [kind |-> "null"]

\* make_structured_request raised
RaisedResponse == [kind |-> "raise"]

\* a truthy object without the fields the interpreter reads
MalformedResponse == [kind |-> "malformed"]

NoResponse == [kind |-> "none"]

SelectionFields == {None, "", UNCHANGED_SENTINEL, "Förblir oförändrad", "r1"}

SelectionResponses ==
  {NullResponse, RaisedResponse, MalformedResponse} \cup
  {[kind |-> "parsed", slutlig_bedomning |-> v,
    mening_med_endast_verifierbar_info |-> f] :
      v \in {POSITIVE, NEGATIVE}, f \in SelectionFields}

DisambiguationFields == {None, "", CANNOT_SENTINEL, "d1"}

DisambiguationResponses ==
  {NullResponse, RaisedResponse, MalformedResponse} \cup
  {[kind |-> "parsed", avkontextualiserad_mening |-> f] :
      f \in DisambiguationFields}

Pastaende(t, v) == [text |-> t, verifierbar |-> v]

ClaimLists ==
  { <<>>,
    <<Pastaende("c1", TRUE)>>,
    <<Pastaende("c1", TRUE), Pastaende("c1", TRUE)>>,
    <<Pastaende("c2", TRUE), Pastaende("c1", TRUE)>>,
    <<Pastaende("c3", FALSE)>> }

DecompositionResponses ==
  {NullResponse, RaisedResponse, MalformedResponse} \cup
  {[kind |-> "parsed", slutgiltiga_pastaenden |-> l] : l \in ClaimLists}

(* --------------------------- pure functions --------------------------- *)

\* variant: no clamp, the second argument is taken
Max_takes_second(a, b) == b

Max(a, b) == IF a >= b THEN a ELSE b

Min(a, b) == IF a <= b THEN a ELSE b

\* "\n".join(lines)
RECURSIVE JoinLines(_)
JoinLines(lines) ==
  IF lines = <<>> THEN ""
  ELSE IF Len(lines) = 1 THEN lines[1]
       ELSE lines[1] \o "\n" \o JoinLines(Tail(lines))

\* list[start:end] of Python: a negative bound counts from the end, a bound
\* outside the list is clamped, an empty range gives []
PySlice(list, start, end) ==
  LET n == Len(list)
      norm(x) == IF x < 0 THEN (IF n + x < 0 THEN 0 ELSE n + x)
                 ELSE (IF x > n THEN n ELSE x)
  IN  SubSeq(list, norm(start) + 1, norm(end))

\* variant: the window ends one sentence early
context_sentences_ends_early(sents, index, p, f) ==
  LET start == Max(0, index - p)
      end   == Min(Len(sents), index + f)
  IN  PySlice(sents, start, end)

\* the sentences of the window, before they are joined
context_sentences(sents, index, p, f) ==
  LET start == Max(0, index - p)
      end   == Min(Len(sents), index + f + 1)
  IN  PySlice(sents, start, end)

create_context_for_sentence(sents, index, p, f) ==
  JoinLines(context_sentences(sents, index, p, f))

\* variant: the field is tested with `is not None`
Truthy_not_none(s) == s # None

\* truth value of an Optional[str]
Truthy(s) == s # None /\ s # ""

\* variant: the string is compared as it is
Lower_identity(s) == s

\* str.lower() on the strings of the model
Lower(s) ==
  IF s = "Förblir oförändrad" THEN "förblir oförändrad"
  ELSE IF s = "GPT-4o" THEN "gpt-4o"
  ELSE s

\* truth value of the object make_structured_request returned
ResponseTruthy(response) == response.kind # "null"

\* variant: the verdict is not looked at, only the field
parse_structured_selection_output_no_verdict(response, original_sentence) ==
  IF response.kind # "parsed" THEN <<"error", None>>
  ELSE IF response.mening_med_endast_verifierbar_info = None
       THEN <<"unverifiable", None>>
       ELSE IF Lower(response.mening_med_endast_verifierbar_info)
                 = UNCHANGED_SENTINEL
            THEN <<"verifiable", original_sentence>>
            ELSE <<"verifiable", response.mening_med_endast_verifierbar_info>>

parse_structured_selection_output(response, original_sentence) ==
  IF response.kind # "parsed" THEN <<"error", None>>
  ELSE IF response.slutlig_bedomning = POSITIVE
       THEN IF Truthy(response.mening_med_endast_verifierbar_info)
            THEN IF Lower(response.mening_med_endast_verifierbar_info)
                      = UNCHANGED_SENTINEL
                 THEN <<"verifiable", original_sentence>>
                 ELSE IF response.mening_med_endast_verifierbar_info = None
                      THEN <<"unverifiable", None>>
                      ELSE <<"verifiable",
                             response.mening_med_endast_verifierbar_info>>
            ELSE <<"verifiable", original_sentence>>
       ELSE <<"unverifiable", None>>

\* variant: a None response is passed on as the unchanged sentence
run_selection_stage_null_passes(response, sentence) ==
  IF ~ResponseTruthy(response) THEN <<"verifiable", sentence>>
  ELSE parse_structured_selection_output(response, sentence)

run_selection_stage(response, sentence) ==
  IF ~ResponseTruthy(response) THEN <<"error", None>>
  ELSE parse_structured_selection_output(response, sentence)

parse_structured_disambiguation_output(response, original_sentence) ==
  IF response.kind # "parsed" THEN <<"error", None>>
  ELSE IF Truthy(response.avkontextualiserad_mening)
       THEN IF response.avkontextualiserad_mening = CANNOT_SENTINEL
            THEN <<"unresolvable", None>>
            ELSE <<"resolved", response.avkontextualiserad_mening>>
       ELSE <<"unresolvable", None>>

run_disambiguation_stage(response, sentence) ==
  IF ~ResponseTruthy(response) THEN <<"error", None>>
  ELSE parse_structured_disambiguation_output(response, sentence)

\* variant: equal neighbours of one response are given once
parse_structured_decomposition_output_dedupes(response) ==
  IF response.kind # "parsed" THEN <<>>
  ELSE LET l == response.slutgiltiga_pastaenden
           keep == {k \in 1..Len(l) : k = 1 \/ l[k].text # l[k - 1].text}
       IN  [k \in 1..Cardinality(keep) |->
              l[CHOOSE m \in keep :
                  Cardinality({n \in keep : n <= m}) = k].text]

parse_structured_decomposition_output(response) ==
  IF response.kind # "parsed" THEN <<>>
  ELSE [k \in 1..Len(response.slutgiltiga_pastaenden) |->
           response.slutgiltiga_pastaenden[k].text]

run_decomposition_stage(response) ==
  IF ~ResponseTruthy(response) THEN <<>>
  ELSE parse_structured_decomposition_output(response)

\* variant: of equal texts the last one keeps its place
RECURSIVE FromKeys_keeps_last(_, _)
FromKeys_keeps_last(claims, acc) ==
  IF claims = <<>> THEN acc
  ELSE FromKeys_keeps_last(Tail(claims),
                           IF Head(claims) \in Range(Tail(claims)) THEN acc
                           ELSE Append(acc, Head(claims)))

\* list(dict.fromkeys(claims)): first occurrences, in order
RECURSIVE FromKeys(_, _)
FromKeys(claims, acc) ==
  IF claims = <<>> THEN acc
  ELSE FromKeys(Tail(claims),
                IF Head(claims) \in Range(acc) THEN acc
                ELSE Append(acc, Head(claims)))

\* variant: the accumulated list is returned as it is
dict_fromkeys_keeps_all(claims) == claims

dict_fromkeys(claims) == FromKeys(claims, <<>>)

\* variant: the list is assigned instead of extended
list_extend_overwrites(claims, extracted) == extracted

\* variant: the new claims are put in front
list_extend_prepends(claims, extracted) == extracted \o claims

\* variant: the new claims are not put in as one block (the first in front,
\* the others behind)
list_extend_splits(claims, extracted) == <<Head(extracted)>> \o claims \o Tail(extracted)

\* all_claims.extend(extracted_claims)
list_extend(claims, extracted) == claims \o extracted

\* variant: if selection_status == 'unverifiable': return
SelectionStops_only_unverifiable(status) == status = "unverifiable"

\* process_sentence: if selection_status != 'verifiable': return
SelectionStops(status) == status # "verifiable"

\* variant: if disambiguation_status == 'unresolvable': return
DisambiguationStops_only_unresolvable(status) == status = "unresolvable"

\* process_sentence: if disambiguation_status != 'resolved': return
DisambiguationStops(status) == status # "resolved"

(* ------------------------------- state -------------------------------- *)

VARIABLES
  runpc,                 \* run: "idle", "called", "starting", "joining",
                         \* "returned", "raised"
  text_to_process,       \* run: its argument, until it has been segmented
  sentences,             \* run: split_into_sentences(text_to_process)
  all_claims,            \* run: the shared list the threads extend
  all_claims_lock,       \* the set of threads holding the lock (at most one)
  threads,               \* run: number of threads started so far
  joined,                \* run: number of threads joined so far
  unique_claims,         \* run: the returned list
  pc,                    \* per thread: position in process_sentence
  context_excerpt,       \* per thread: local of process_sentence
  structured_response,   \* per thread: local of the stage function that
                         \* has just returned (NoResponse otherwise)
  selection_status,      \* per thread: local of process_sentence
  verifiable_sentence,   \* per thread: local of process_sentence
  disambiguation_status, \* per thread: local of process_sentence
  clarified_sentence,    \* per thread: local of process_sentence
  extracted_claims,      \* per thread: local of process_sentence
  requests,              \* per thread: the completion calls it has made
  appended,              \* per thread: what it has put into all_claims
  caught,                \* per thread: the except clause of process_sentence ran
  call,                  \* a direct call of one of the functions: its
                         \* arguments and what it gave (NoCall otherwise)
  record,                \* whether the history of responses is kept
  responses,             \* per thread: what its completion calls gave, in
                         \* order (history, kept only when record is set)
  call_count,            \* LLMClient: self.call_count of the shared client
  client_pc,             \* per thread: position in make_structured_request
  loaded,                \* per thread: the value `+= 1` has read
  start_number,          \* per thread: the call number logged at the start
  end_number,            \* per thread: the call number logged at the end
  calls_made             \* per thread: calls of make_structured_request begun

runVars == <<runpc, sentences, threads, joined, unique_claims>>

sharedVars == <<all_claims, all_claims_lock>>

localVars ==
  <<context_excerpt, structured_response, selection_status,
    verifiable_sentence, disambiguation_status, clarified_sentence,
    extracted_claims>>

historyVars == <<requests, appended, caught>>

clientVars ==
  <<call_count, client_pc, loaded, start_number, end_number, calls_made>>

vars ==
  <<runVars, text_to_process, sharedVars, pc, localVars, historyVars, call,
    record, responses, clientVars>>

\* run has no text (not called yet, or the text has been segmented)
NoText == <<>>

NoCall == [fn |-> "none"]

\* the user prompt of a stage call: question, excerpt and sentence
Request(stage, excerpt, sentence) ==
  [stage |-> stage, excerpt |-> excerpt, sentence |-> sentence]

\* the state before run is called, with the history of responses kept or not
InitWith(keep) ==
  /\ record = keep
  /\ responses = [i \in Threads |-> <<>>]
  /\ runpc = "idle"
  /\ text_to_process = NoText
  /\ call = NoCall
  /\ sentences = <<>>
  /\ all_claims = <<>>
  /\ all_claims_lock = {}
  /\ threads = 0
  /\ joined = 0
  /\ unique_claims = <<>>
  /\ pc = [i \in Threads |-> "NotStarted"]
  /\ context_excerpt = [i \in Threads |-> None]
  /\ structured_response = [i \in Threads |-> NoResponse]
  /\ selection_status = [i \in Threads |-> None]
  /\ verifiable_sentence = [i \in Threads |-> None]
  /\ disambiguation_status = [i \in Threads |-> None]
  /\ clarified_sentence = [i \in Threads |-> None]
  /\ extracted_claims = [i \in Threads |-> <<>>]
  /\ requests = [i \in Threads |-> <<>>]
  /\ appended = [i \in Threads |-> <<>>]
  /\ caught = [i \in Threads |-> FALSE]
  /\ call_count = 0
  /\ client_pc = [i \in Threads |-> "idle"]
  /\ loaded = [i \in Threads |-> 0]
  /\ start_number = [i \in Threads |-> 0]
  /\ end_number = [i \in Threads |-> 0]
  /\ calls_made = [i \in Threads |-> 0]

Init == InitWith(FALSE)

(* ------------------------- ClaimifyPipeline.run ------------------------ *)

\* run(text_to_process) is called
RunCall(text) ==
  /\ runpc = "idle"
  /\ runpc' = "called"
  /\ text_to_process' = text
  /\ UNCHANGED <<record, responses, call, clientVars,
                 sentences, threads, joined, unique_claims, sharedVars,
                 pc, localVars, historyVars>>

\* run on a blank text: return [] at once
RunBlank ==
  /\ runpc = "called"
  /\ TextIsBlank(text_to_process)
  /\ runpc' = "returned"
  /\ unique_claims' = <<>>
  /\ UNCHANGED <<record, responses, call, clientVars,
                 text_to_process, sentences, threads, joined,
                 sharedVars, pc, localVars, historyVars>>

\* run on a non-blank text: segment, create the list and the lock
RunSegment ==
  /\ runpc = "called"
  /\ ~TextIsBlank(text_to_process)
  /\ sentences' = split_into_sentences(text_to_process)
  /\ text_to_process' = NoText
  /\ all_claims' = <<>>
  /\ all_claims_lock' = {}
  /\ threads' = 0
  /\ runpc' = IF split_into_sentences(text_to_process) = <<>> THEN "joining"
              ELSE "starting"
  /\ UNCHANGED <<record, responses, call, clientVars,
                 joined, unique_claims, pc, localVars, historyVars>>

\* variant: the loop stops one sentence short
StartThread_skips_last ==
  /\ runpc = "starting"
  /\ threads < Len(sentences)
  /\ IF threads + 1 = Len(sentences)
     THEN /\ runpc' = "joining"
          /\ UNCHANGED <<pc, threads>>
     ELSE /\ pc' = [pc EXCEPT ![threads] = "Start"]
          /\ threads' = threads + 1
          /\ runpc' = "starting"
  /\ UNCHANGED <<record, responses, call, clientVars, text_to_process>>
  /\ UNCHANGED <<sentences, joined, unique_claims, sharedVars, localVars,
                 historyVars>>

\* one round of the loop that creates and starts the threads
StartThread ==
  /\ runpc = "starting"
  /\ threads < Len(sentences)
  /\ pc' = [pc EXCEPT ![threads] = "Start"]
  /\ threads' = threads + 1
  /\ runpc' = IF threads + 1 = Len(sentences) THEN "joining" ELSE "starting"
  /\ UNCHANGED <<record, responses, call, clientVars, text_to_process>>
  /\ UNCHANGED <<sentences, joined, unique_claims, sharedVars, localVars,
                 historyVars>>

\* variant: run does not wait for the thread
JoinReturns_at_once(state) == TRUE

\* thread.join() returns once the thread has terminated
JoinReturns(state) == state = "Done"

\* one round of the loop that joins the threads
JoinThread ==
  /\ runpc = "joining"
  /\ joined < threads
  /\ JoinReturns(pc[joined])
  /\ joined' = joined + 1
  /\ UNCHANGED <<record, responses, call, clientVars, text_to_process>>
  /\ UNCHANGED <<runpc, sentences, threads, unique_claims, sharedVars, pc,
                 localVars, historyVars>>

\* after the last join: de-duplicate and return
RunReturn ==
  /\ runpc = "joining"
  /\ joined = threads
  /\ unique_claims' = dict_fromkeys(all_claims)
  /\ runpc' = "returned"
  /\ UNCHANGED <<record, responses, call, clientVars, text_to_process>>
  /\ UNCHANGED <<sentences, threads, joined, sharedVars, pc, localVars,
                 historyVars>>

(* ------------------ ClaimifyPipeline.process_sentence ------------------ *)

\* the except clause: print, return
\* variant: the exception is swallowed where the call was made and the
\* worker goes on after it
Catch_resumes(i) ==
  /\ pc' = [pc EXCEPT ![i] =
             IF @ = "Selecting" THEN "Selected"
             ELSE IF @ = "Disambiguating" THEN "Disambiguated"
             ELSE IF @ = "Decomposing" THEN "Decomposed"
             ELSE "Done"]
  /\ caught' = [caught EXCEPT ![i] = TRUE]

Catch(i) ==
  /\ pc' = [pc EXCEPT ![i] = "Done"]
  /\ caught' = [caught EXCEPT ![i] = TRUE]

\* build the excerpt and make the Selection call
BuildContext(i) ==
  /\ pc[i] = "Start"
  /\ LET excerpt == create_context_for_sentence(sentences, i, P_PRECEDING,
                                                F_FOLLOWING)
     IN  /\ context_excerpt' = [context_excerpt EXCEPT ![i] = excerpt]
         /\ requests' = [requests EXCEPT ![i] =
              Append(@, Request("selection", excerpt, sentences[i + 1]))]
  /\ pc' = [pc EXCEPT ![i] = "Selecting"]
  /\ UNCHANGED <<record, responses, call, clientVars, text_to_process>>
  /\ UNCHANGED <<runVars, sharedVars, structured_response, selection_status,
                 verifiable_sentence, disambiguation_status,
                 clarified_sentence, extracted_claims, appended, caught>>

\* the Selection call ends: run_selection_stage returns or raises
SelectionReturns(i, response) ==
  /\ pc[i] = "Selecting"
  /\ structured_response' =
       [structured_response EXCEPT ![i] =
          IF response.kind = "raise" THEN NoResponse ELSE response]
  /\ IF response.kind = "raise"
     THEN /\ Catch(i)
          /\ UNCHANGED <<selection_status, verifiable_sentence>>
     ELSE LET out == run_selection_stage(response, sentences[i + 1])
          IN  /\ selection_status' = [selection_status EXCEPT ![i] = out[1]]
              /\ verifiable_sentence' =
                   [verifiable_sentence EXCEPT ![i] = out[2]]
              /\ pc' = [pc EXCEPT ![i] = "Selected"]
              /\ UNCHANGED caught
  /\ responses' = [responses EXCEPT ![i] =
       IF record THEN Append(@, response) ELSE @]
  /\ UNCHANGED <<record, call, clientVars, text_to_process>>
  /\ UNCHANGED <<runVars, sharedVars, context_excerpt, disambiguation_status,
                 clarified_sentence, extracted_claims, requests, appended>>

\* variant: Disambiguation is called with the original sentence
AfterSelection_passes_original(i) ==
  /\ pc[i] = "Selected"
  /\ IF SelectionStops(selection_status[i])
     THEN /\ pc' = [pc EXCEPT ![i] = "Done"]
          /\ UNCHANGED requests
     ELSE /\ pc' = [pc EXCEPT ![i] = "Disambiguating"]
          /\ requests' = [requests EXCEPT ![i] =
               Append(@, Request("disambiguation", context_excerpt[i],
                                 sentences[i + 1]))]
  /\ structured_response' = [structured_response EXCEPT ![i] = NoResponse]
  /\ UNCHANGED <<record, responses, call, clientVars, text_to_process>>
  /\ UNCHANGED <<runVars, sharedVars, context_excerpt, selection_status,
                 verifiable_sentence, disambiguation_status,
                 clarified_sentence, extracted_claims, appended, caught>>

\* the check of selection_status, then the Disambiguation call
AfterSelection(i) ==
  /\ pc[i] = "Selected"
  /\ IF SelectionStops(selection_status[i])
     THEN /\ pc' = [pc EXCEPT ![i] = "Done"]
          /\ UNCHANGED requests
     ELSE /\ pc' = [pc EXCEPT ![i] = "Disambiguating"]
          /\ requests' = [requests EXCEPT ![i] =
               Append(@, Request("disambiguation", context_excerpt[i],
                                 verifiable_sentence[i]))]
  /\ structured_response' = [structured_response EXCEPT ![i] = NoResponse]
  /\ UNCHANGED <<record, responses, call, clientVars, text_to_process>>
  /\ UNCHANGED <<runVars, sharedVars, context_excerpt, selection_status,
                 verifiable_sentence, disambiguation_status,
                 clarified_sentence, extracted_claims, appended, caught>>

\* the Disambiguation call ends
DisambiguationReturns(i, response) ==
  /\ pc[i] = "Disambiguating"
  /\ structured_response' =
       [structured_response EXCEPT ![i] =
          IF response.kind = "raise" THEN NoResponse ELSE response]
  /\ IF response.kind = "raise"
     THEN /\ Catch(i)
          /\ UNCHANGED <<disambiguation_status, clarified_sentence>>
     ELSE LET out == run_disambiguation_stage(response,
                                              verifiable_sentence[i])
          IN  /\ disambiguation_status' =
                   [disambiguation_status EXCEPT ![i] = out[1]]
              /\ clarified_sentence' =
                   [clarified_sentence EXCEPT ![i] = out[2]]
              /\ pc' = [pc EXCEPT ![i] = "Disambiguated"]
              /\ UNCHANGED caught
  /\ responses' = [responses EXCEPT ![i] =
       IF record THEN Append(@, response) ELSE @]
  /\ UNCHANGED <<record, call, clientVars, text_to_process>>
  /\ UNCHANGED <<runVars, sharedVars, context_excerpt, selection_status,
                 verifiable_sentence, extracted_claims, requests, appended>>

\* variant: the excerpt of the Decomposition call is the rewritten sentence
AfterDisambiguation_new_excerpt(i) ==
  /\ pc[i] = "Disambiguated"
  /\ IF DisambiguationStops(disambiguation_status[i])
     THEN /\ pc' = [pc EXCEPT ![i] = "Done"]
          /\ UNCHANGED requests
     ELSE /\ pc' = [pc EXCEPT ![i] = "Decomposing"]
          /\ requests' = [requests EXCEPT ![i] =
               Append(@, Request("decomposition", clarified_sentence[i],
                                 clarified_sentence[i]))]
  /\ structured_response' = [structured_response EXCEPT ![i] = NoResponse]
  /\ UNCHANGED <<record, responses, call, clientVars, text_to_process>>
  /\ UNCHANGED <<runVars, sharedVars, context_excerpt, selection_status,
                 verifiable_sentence, disambiguation_status,
                 clarified_sentence, extracted_claims, appended, caught>>

\* the check of disambiguation_status, then the Decomposition call
AfterDisambiguation(i) ==
  /\ pc[i] = "Disambiguated"
  /\ IF DisambiguationStops(disambiguation_status[i])
     THEN /\ pc' = [pc EXCEPT ![i] = "Done"]
          /\ UNCHANGED requests
     ELSE /\ pc' = [pc EXCEPT ![i] = "Decomposing"]
          /\ requests' = [requests EXCEPT ![i] =
               Append(@, Request("decomposition", context_excerpt[i],
                                 clarified_sentence[i]))]
  /\ structured_response' = [structured_response EXCEPT ![i] = NoResponse]
  /\ UNCHANGED <<record, responses, call, clientVars, text_to_process>>
  /\ UNCHANGED <<runVars, sharedVars, context_excerpt, selection_status,
                 verifiable_sentence, disambiguation_status,
                 clarified_sentence, extracted_claims, appended, caught>>

\* the Decomposition call ends
DecompositionReturns(i, response) ==
  /\ pc[i] = "Decomposing"
  /\ structured_response' =
       [structured_response EXCEPT ![i] =
          IF response.kind = "raise" THEN NoResponse ELSE response]
  /\ IF response.kind = "raise"
     THEN /\ Catch(i)
          /\ UNCHANGED extracted_claims
     ELSE /\ extracted_claims' =
               [extracted_claims EXCEPT ![i] =
                  run_decomposition_stage(response)]
          /\ pc' = [pc EXCEPT ![i] = "Decomposed"]
          /\ UNCHANGED caught
  /\ responses' = [responses EXCEPT ![i] =
       IF record THEN Append(@, response) ELSE @]
  /\ UNCHANGED <<record, call, clientVars, text_to_process>>
  /\ UNCHANGED <<runVars, sharedVars, context_excerpt, selection_status,
                 verifiable_sentence, disambiguation_status,
                 clarified_sentence, requests, appended>>

\* if extracted_claims: (false) -- return without touching the list
SkipAppend(i) ==
  /\ pc[i] = "Decomposed"
  /\ extracted_claims[i] = <<>>
  /\ pc' = [pc EXCEPT ![i] = "Done"]
  /\ structured_response' = [structured_response EXCEPT ![i] = NoResponse]
  /\ UNCHANGED <<record, responses, call, clientVars, text_to_process>>
  /\ UNCHANGED <<runVars, sharedVars, context_excerpt, selection_status,
                 verifiable_sentence, disambiguation_status,
                 clarified_sentence, extracted_claims, historyVars>>

\* variant: the with block is entered without the lock
LockAvailable_always(holders) == TRUE

\* Lock.acquire() succeeds
LockAvailable(holders) == holders = {}

\* if extracted_claims: with all_claims_lock: -- enter the with block
AcquireLock(i) ==
  /\ pc[i] = "Decomposed"
  /\ extracted_claims[i] # <<>>
  /\ LockAvailable(all_claims_lock)
  /\ all_claims_lock' = all_claims_lock \cup {i}
  /\ pc' = [pc EXCEPT ![i] = "InAppend"]
  /\ structured_response' = [structured_response EXCEPT ![i] = NoResponse]
  /\ UNCHANGED <<record, responses, call, clientVars, text_to_process>>
  /\ UNCHANGED <<runVars, all_claims, context_excerpt, selection_status,
                 verifiable_sentence, disambiguation_status,
                 clarified_sentence, extracted_claims, historyVars>>

\* variant: the lock is acquired and never released
LockRelease_never(holders, i) == holders

\* leaving the with block
LockRelease(holders, i) == holders \ {i}

\* variant: extracted_claims is one list shared by the workers (the first
\* worker's), not a local of each
ExtendClaims_shared_local(i) ==
  /\ pc[i] = "InAppend"
  /\ all_claims' = list_extend(all_claims, extracted_claims[0])
  /\ appended' = [appended EXCEPT ![i] = @ \o extracted_claims[0]]
  /\ all_claims_lock' = LockRelease(all_claims_lock, i)
  /\ pc' = [pc EXCEPT ![i] = "Done"]
  /\ UNCHANGED <<record, responses, call, clientVars, text_to_process>>
  /\ UNCHANGED <<runVars, localVars, requests, caught>>

\* all_claims.extend(extracted_claims), leave the with block, return
ExtendClaims(i) ==
  /\ pc[i] = "InAppend"
  /\ all_claims' = list_extend(all_claims, extracted_claims[i])
  /\ appended' = [appended EXCEPT ![i] = @ \o extracted_claims[i]]
  /\ all_claims_lock' = LockRelease(all_claims_lock, i)
  /\ pc' = [pc EXCEPT ![i] = "Done"]
  /\ UNCHANGED <<record, responses, call, clientVars, text_to_process>>
  /\ UNCHANGED <<runVars, localVars, requests, caught>>

Worker(i) ==
  \/ BuildContext(i)
  \/ \E r \in SelectionResponses : SelectionReturns(i, r)
  \/ AfterSelection(i)
  \/ \E r \in DisambiguationResponses : DisambiguationReturns(i, r)
  \/ AfterDisambiguation(i)
  \/ \E r \in DecompositionResponses : DecompositionReturns(i, r)
  \/ SkipAppend(i)
  \/ AcquireLock(i)
  \/ ExtendClaims(i)

\* run is called once, with any text
RunCalled == runpc = "idle"

Run ==
  \/ RunCalled /\ \E text \in Texts : RunCall(text)
  \/ RunBlank
  \/ RunSegment
  \/ StartThread
  \/ JoinThread
  \/ RunReturn

Next == Run \/ \E i \in Threads : Worker(i)

Spec == Init /\ [][Next]_vars

(* Threads are scheduled fairly and every completion call returns; run is  *)
(* fair once it has been called.                                           *)
LiveSpec ==
  /\ Init /\ [][Next]_vars
  /\ WF_vars(StartThread)
  /\ WF_vars(JoinThread)
  /\ WF_vars(RunReturn)
  /\ \A i \in Threads : WF_vars(Worker(i))

(* ---------------- exceptions anywhere inside a worker ------------------ *)

\* variant: acquire()/release() without try/finally
UnwindLock_keeps(holders, i) == holders

\* the with block is left by an exception: the lock is released
UnwindLock(holders, i) == holders \ {i}

\* an exception is raised in process_sentence outside a completion call:
\* while building the context, between the stages or inside the with block
RaiseInWorker(i) ==
  /\ pc[i] \in {"Start", "Selected", "Disambiguated", "Decomposed", "InAppend"}
  /\ Catch(i)
  /\ all_claims_lock' = UnwindLock(all_claims_lock, i)
  /\ structured_response' = [structured_response EXCEPT ![i] = NoResponse]
  /\ UNCHANGED <<record, responses, call, clientVars, text_to_process>>
  /\ UNCHANGED <<runVars, all_claims, context_excerpt, selection_status,
                 verifiable_sentence, disambiguation_status,
                 clarified_sentence, extracted_claims, requests, appended>>

FaultNext == Next \/ \E i \in Threads : RaiseInWorker(i)

FaultSpec == Init /\ [][FaultNext]_vars

(* ------------------- the tokenizer data (nltk) ------------------------ *)

NltkResources == {"punkt_tab", "punkt"}

\* nltk.download(name): the data is installed and True returned, or False
\* is returned (no network, unknown package), or an exception is raised
DownloadOutcomes == {"ok", "false", "raise"}

\* what split_into_sentences meets: the data installed, the data the
\* installed nltk's sent_tokenize loads, and what the two downloads would do.
\* An nltk that loads punkt knows no punkt_tab package.
NltkEnvs ==
  {env \in [installed : SUBSET NltkResources, needs : NltkResources,
            first : DownloadOutcomes, second : DownloadOutcomes] :
     env.needs = "punkt" =>
       ("punkt_tab" \notin env.installed /\ env.first # "ok")}

\* ensure_nltk_data(): whether it raised, and the data installed after it
ensure_nltk_data(env) ==
  IF "punkt_tab" \in env.installed
  THEN [raised |-> FALSE, installed |-> env.installed]
  ELSE IF env.first = "raise"
       THEN [raised    |-> env.second = "raise",
             installed |-> IF env.second = "ok"
                           THEN env.installed \cup {"punkt"}
                           ELSE env.installed]
       ELSE [raised    |-> FALSE,
             installed |-> IF env.first = "ok"
                           THEN env.installed \cup {"punkt_tab"}
                           ELSE env.installed]

\* split_into_sentences(text) with the tokenizer data of env: the list of
\* sentences, or the exception of the second download or of
\* nltk.sent_tokenize (LookupError when the data it loads is not installed)
split_into_sentences_in(text, env) ==
  LET ensured == ensure_nltk_data(env)
  IN  IF ensured.raised THEN [kind |-> "raise"]
      ELSE IF ~TextIsBlank(text) /\ env.needs \notin ensured.installed
           THEN [kind |-> "raise"]
           ELSE [kind |-> "ok", sentences |-> split_into_sentences(text)]

(* --------------- failures of the tokenizer and of threads ------------- *)

\* split_into_sentences raises: the tokenizer data is missing and could not
\* be downloaded, so nltk.sent_tokenize (or the second download) raises;
\* run has no handler and ends with the exception
RunSegmentRaises ==
  /\ runpc = "called"
  /\ ~TextIsBlank(text_to_process)
  /\ \E env \in NltkEnvs :
       split_into_sentences_in(text_to_process, env).kind = "raise"
  /\ runpc' = "raised"
  /\ UNCHANGED <<record, responses, call, clientVars,
                 text_to_process, sentences, threads, joined,
                 unique_claims, sharedVars, pc, localVars, historyVars>>

\* thread.start() raises (no new thread can be started): run ends with the
\* exception, the threads started before go on
StartThreadRaises ==
  /\ runpc = "starting"
  /\ threads < Len(sentences)
  /\ runpc' = "raised"
  /\ UNCHANGED <<record, responses, call, clientVars,
                 text_to_process, sentences, threads, joined,
                 unique_claims, sharedVars, pc, localVars, historyVars>>

EnvNext == Next \/ RunSegmentRaises \/ StartThreadRaises

EnvSpec == Init /\ [][EnvNext]_vars

(* ----------------- the same, with the responses recorded -------------- *)

HistorySpec == InitWith(TRUE) /\ [][Next]_vars

(* ------------------- LLMClient.make_structured_request ---------------- *)

\* LLM_MODEL values; a name is the sequence of its pieces, so that
\* "x in name" is a test for a run of pieces
ModelNames ==
  { <<"gpt-4o">>, <<"GPT-4o">>, <<"gpt-4o", "-mini">>,
    <<"gpt-4o", "-2024", "-08-06">>, <<"gpt-4o", "-latest">>,
    <<"gpt-4">>, <<"gpt-3.5-turbo">>,
    <<"ft:", "gpt-4o", "-mini", ":org">> }

\* sub in name
Contains(name, sub) ==
  \E k \in 0..(Len(name) - Len(sub)) : SubSeq(name, k + 1, k + Len(sub)) = sub

supports_structured_outputs(model) ==
  LET model_lower == [k \in 1..Len(model) |-> Lower(model[k])]
  IN  IF Contains(model_lower, <<"gpt-4o", "-mini">>) THEN TRUE
      ELSE IF Contains(model_lower, <<"gpt-4o", "-2024">>) THEN TRUE
      ELSE IF model_lower = <<"gpt-4o">> THEN TRUE
      ELSE FALSE

\* what client.beta.chat.completions.parse does: it raises, or gives a
\* message with a refusal, or a message with message.parsed (an object of
\* the response model, or None)
ApiOutcomes ==
  {[kind |-> "raise"], [kind |-> "refusal"]} \cup
  {[kind |-> "parsed", parsed |-> r] :
     r \in {NullResponse} \cup
           {x \in SelectionResponses \cup DisambiguationResponses
                    \cup DecompositionResponses :
              x.kind \in {"parsed", "malformed"}}}

\* variant: the API call is made outside the try
make_structured_request_no_except(model, api) ==
  IF ~supports_structured_outputs(model) THEN RaisedResponse
  ELSE IF api.kind = "raise" THEN RaisedResponse
  ELSE IF api.kind = "refusal" THEN NullResponse
  ELSE api.parsed

\* what make_structured_request gives its caller: RaisedResponse for an
\* exception, NullResponse for None, else the parsed object
make_structured_request(model, api) ==
  IF ~supports_structured_outputs(model) THEN RaisedResponse
  ELSE IF api.kind = "raise" THEN NullResponse
  ELSE IF api.kind = "refusal" THEN NullResponse
  ELSE api.parsed

(* ------------- one LLMClient called by several threads --------------- *)

\* everything but the client
pipelineVars ==
  <<record, responses, call, runVars, text_to_process, sharedVars, pc,
    localVars, historyVars>>

\* self.call_count += 1, first half: the attribute is read
ClientLoad(i) ==
  /\ client_pc[i] = "idle"
  /\ calls_made[i] < MaxClientCalls
  /\ calls_made' = [calls_made EXCEPT ![i] = @ + 1]
  /\ loaded' = [loaded EXCEPT ![i] = call_count]
  /\ client_pc' = [client_pc EXCEPT ![i] = "loaded"]
  /\ UNCHANGED <<call_count, start_number, end_number, pipelineVars>>

\* self.call_count += 1, second half: the sum is stored
ClientStore(i) ==
  /\ client_pc[i] = "loaded"
  /\ call_count' = loaded[i] + 1
  /\ client_pc' = [client_pc EXCEPT ![i] = "stored"]
  /\ UNCHANGED <<loaded, start_number, end_number, calls_made, pipelineVars>>

\* "=== STRUCTURED LLM CALL #{self.call_count} ...", then the request is sent
ClientLogStart(i) ==
  /\ client_pc[i] = "stored"
  /\ start_number' = [start_number EXCEPT ![i] = call_count]
  /\ client_pc' = [client_pc EXCEPT ![i] = "requesting"]
  /\ UNCHANGED <<call_count, loaded, end_number, calls_made, pipelineVars>>

\* the request ends (parsed, refused or failed): each of the three paths
\* logs #{self.call_count} and returns
ClientLogEnd(i) ==
  /\ client_pc[i] = "requesting"
  /\ end_number' = [end_number EXCEPT ![i] = call_count]
  /\ client_pc' = [client_pc EXCEPT ![i] = "idle"]
  /\ UNCHANGED <<call_count, loaded, start_number, calls_made,
                 pipelineVars>>

\* make_structured_request, called by thread i
ClientCall(i) ==
  \/ ClientLoad(i)
  \/ ClientStore(i)
  \/ ClientLogStart(i)
  \/ ClientLogEnd(i)

ClientNext == \E i \in Threads : ClientCall(i)

ClientSpec == Init /\ [][ClientNext]_vars

(* ------------------- functions called on their own -------------------- *)

\* sentence lists of every length from 1 to MaxListLen
SentenceLists == {SubSeq(SentenceNames, 1, n) : n \in 1..MaxListLen}

\* create_context_for_sentence(sentences, index, p, f) is called
CallCreateContext(sents, index, p, f) ==
  /\ call' = [fn |-> "create_context_for_sentence",
              sentences |-> sents, index |-> index, p |-> p, f |-> f,
              context_sentences |-> context_sentences(sents, index, p, f),
              result |-> create_context_for_sentence(sents, index, p, f)]
  /\ UNCHANGED <<record, responses, clientVars, runVars, text_to_process, sharedVars, pc,
                 localVars,
                 historyVars>>

\* make_structured_request is called on a new client whose LLM_MODEL is
\* model
CallMakeStructuredRequest(model, api) ==
  /\ call' = [fn |-> "make_structured_request",
              model |-> model, api |-> api,
              call_count |-> IF supports_structured_outputs(model) THEN 1
                             ELSE 0,
              result |-> make_structured_request(model, api)]
  /\ UNCHANGED <<record, responses, clientVars, runVars, text_to_process, sharedVars, pc,
                 localVars,
                 historyVars>>

\* split_into_sentences(text) is called, once, with the tokenizer data of
\* env
CallSplitIntoSentences(text, env) ==
  /\ call = NoCall
  /\ call' = [fn |-> "split_into_sentences", text |-> text, env |-> env,
              ensured |-> ensure_nltk_data(env),
              result |-> split_into_sentences_in(text, env)]
  /\ UNCHANGED <<record, responses, clientVars, runVars, text_to_process, sharedVars, pc,
                 localVars, historyVars>>

TokenizerNext ==
  \E text \in Texts : \E env \in NltkEnvs : CallSplitIntoSentences(text, env)

TokenizerSpec == Init /\ [][TokenizerNext]_vars

FunctionNext ==
  \/ \E sents \in SentenceLists : \E index \in 0..(Len(sents) - 1) :
       \E p, f \in 0..MaxWindow : CallCreateContext(sents, index, p, f)
  \/ \E model \in ModelNames : \E api \in ApiOutcomes :
       CallMakeStructuredRequest(model, api)

FunctionSpec == Init /\ [][FunctionNext]_vars

(* =============================== claims =============================== *)

\* C1: the sequence run returns holds no two equal entries, also when
\* Decomposition gives the same claim text for two sentences or twice for
\* one sentence.
C1_NoDuplicates ==
  runpc = "returned" =>
    \A j, k \in 1..Len(unique_claims) :
      j # k => unique_claims[j] # unique_claims[k]

C1_Witness ==
  /\ runpc = "returned"
  /\ appended[0] = <<"c1", "c1">>
  /\ "c1" \in Range(appended[1])
  /\ unique_claims # <<>>

\* C2: a sentence whose Selection outcome is 'unverifiable' or 'error' gets
\* no Disambiguation and no Decomposition call and its worker appends
\* nothing.
C2_SelectionStopIsFinal ==
  \A i \in Threads :
    selection_status[i] \in {"unverifiable", "error"} =>
      /\ \A k \in 1..Len(requests[i]) : requests[i][k].stage = "selection"
      /\ appended[i] = <<>>
      /\ pc[i] \in {"Selected", "Done"}

C2_Witness ==
  /\ runpc = "returned"
  /\ \E i, j \in Threads :
       /\ selection_status[i] = "unverifiable"
       /\ selection_status[j] = "error"

\* C3: a sentence whose Disambiguation outcome is 'unresolvable' or 'error'
\* gets no Decomposition call and its worker appends nothing.
C3_DisambiguationStopIsFinal ==
  \A i \in Threads :
    disambiguation_status[i] \in {"unresolvable", "error"} =>
      /\ \A k \in 1..Len(requests[i]) : requests[i][k].stage # "decomposition"
      /\ appended[i] = <<>>
      /\ pc[i] \in {"Disambiguated", "Done"}

C3_Witness ==
  /\ runpc = "returned"
  /\ \E i, j \in Threads :
       /\ disambiguation_status[i] = "unresolvable"
       /\ disambiguation_status[j] = "error"

\* C4: in the Selection interpreter a positive verdict with a null field
\* yields 'unverifiable' with no payload (the null field overrides the
\* verdict), so the sentence stops there.
C4_NullFieldOverridesVerdict ==
  \A i \in Threads :
    ( /\ pc[i] = "Selected"
      /\ structured_response[i].kind = "parsed"
      /\ structured_response[i].slutlig_bedomning = POSITIVE
      /\ structured_response[i].mening_med_endast_verifierbar_info = None )
    => /\ selection_status[i] = "unverifiable"
       /\ verifiable_sentence[i] = None

\* the sentence passed all stages with a non-empty claim list
Contributes(i) ==
  /\ selection_status[i] = "verifiable"
  /\ disambiguation_status[i] = "resolved"
  /\ extracted_claims[i] # <<>>

\* C5: every claim text of a sentence that is verifiable, resolved and
\* decomposed into a non-empty list is in the result of run, whatever the
\* interleaving; two such sentences with disjoint lists give a result with
\* the claims of both and at least two entries.
C5_NoAppendLost ==
  /\ \A i \in Threads :
       (pc[i] = "Done" /\ Contributes(i) /\ ~caught[i]) =>
          Range(extracted_claims[i]) \subseteq Range(all_claims)
  /\ runpc = "returned" =>
       /\ \A i \in Threads :
            Contributes(i) =>
              Range(extracted_claims[i]) \subseteq Range(unique_claims)
       /\ \A i, j \in Threads :
            ( /\ i # j /\ Contributes(i) /\ Contributes(j)
              /\ Range(extracted_claims[i]) \cap Range(extracted_claims[j])
                   = {} )
            => Len(unique_claims) >= 2

C5_Witness ==
  /\ runpc = "returned"
  /\ Contributes(0) /\ Contributes(1)
  /\ Range(extracted_claims[0]) \cap Range(extracted_claims[1]) = {}

\* what a thread other than i can see or has done
OthersUntouched(i) ==
  \A j \in Threads \ {i} :
    /\ pc'[j] = pc[j]
    /\ selection_status'[j] = selection_status[j]
    /\ disambiguation_status'[j] = disambiguation_status[j]
    /\ extracted_claims'[j] = extracted_claims[j]
    /\ appended'[j] = appended[j]
    /\ caught'[j] = caught[j]
    /\ (j \in all_claims_lock') = (j \in all_claims_lock)

C6_NullIsFailure ==
  \A i \in Threads :
    structured_response[i] = NullResponse =>
      /\ pc[i] \in {"Selected", "Disambiguated", "Decomposed"}
      /\ pc[i] = "Selected" =>
           selection_status[i] = "error" /\ verifiable_sentence[i] = None
      /\ pc[i] = "Disambiguated" =>
           disambiguation_status[i] = "error" /\ clarified_sentence[i] = None
      /\ pc[i] = "Decomposed" => extracted_claims[i] = <<>>
      /\ appended[i] = <<>>

C6_NullStep ==
  \A i \in Threads :
    (structured_response[i] = NullResponse /\ pc'[i] # pc[i]) =>
      /\ pc'[i] = "Done"
      /\ appended' = appended
      /\ all_claims' = all_claims
      /\ all_claims_lock' = all_claims_lock
      /\ requests' = requests
      /\ OthersUntouched(i)

\* C6: a sentence for which the completion call returns null at a stage gets
\* that stage's failure outcome ('error', 'error', empty list), contributes
\* no claim, and its worker ends without touching the list, the lock or any
\* other worker.
C6_NullContributesNothing == []C6_NullIsFailure /\ [][C6_NullStep]_vars

C6_Witness ==
  \E i, j \in Threads :
    /\ structured_response[i] = NullResponse
    /\ pc[i] = "Disambiguated"
    /\ appended[j] # <<>>

C7_CaughtIsSilent ==
  /\ \A i \in Threads :
       caught[i] =>
         /\ pc[i] = "Done"
         /\ appended[i] = <<>>
         /\ i \notin all_claims_lock
  /\ runpc \in {"starting", "joining"} => ENABLED FaultNext

C7_CatchStep ==
  \A i \in Threads :
    (~caught[i] /\ caught'[i]) =>
      /\ runVars' = runVars
      /\ all_claims' = all_claims
      /\ OthersUntouched(i)

\* C7: an exception raised anywhere in a worker (context building, a stage
\* call, the append) ends that worker with nothing appended and the lock
\* free; the step changes neither run's state nor another worker, and run
\* and the other workers can always go on to completion.
C7_ExceptionStaysInWorker == []C7_CaughtIsSilent /\ [][C7_CatchStep]_vars

C7_Witness ==
  /\ runpc = "returned"
  /\ \E i, j \in Threads :
       /\ caught[i] /\ extracted_claims[i] # <<>>
       /\ appended[j] # <<>>

\* C8: run produces its result only when every worker it started has
\* terminated, and the result is the de-duplicated list as it stands from
\* then on (no append after the read, no partial result).
C8_ReadAfterJoin ==
  runpc = "returned" =>
    /\ \A i \in Threads :
         IF i < threads THEN pc[i] = "Done" ELSE pc[i] = "NotStarted"
    /\ unique_claims = dict_fromkeys(all_claims)

C8_Witness ==
  /\ runpc = "returned"
  /\ \E i, j \in Threads :
       /\ caught[i]
       /\ appended[j] # <<>>

C9_OneInside ==
  /\ Cardinality({i \in Threads : pc[i] = "InAppend"}) <= 1
  /\ all_claims_lock = {i \in Threads : pc[i] = "InAppend"}

C9_MutationUnderLock ==
  all_claims' # all_claims =>
    \E i \in all_claims_lock :
      /\ all_claims_lock = {i}
      /\ pc[i] = "InAppend"
      /\ pc'[i] = "Done"
      /\ all_claims' = all_claims \o extracted_claims[i]

\* C9: at most one worker is inside the append at any time, it is the one
\* holding the lock, and every change of the shared list is made by the
\* worker that holds the lock.
C9_AppendSerialized == []C9_OneInside /\ [][C9_MutationUnderLock]_vars

C9_Witness ==
  \E i, j \in Threads :
    /\ pc[i] = "InAppend"
    /\ pc[j] = "Decomposed"
    /\ extracted_claims[j] # <<>>

\* C10: once run has segmented a non-blank text, and with every completion
\* call returning, a state is reached in which every worker of the run is
\* Done and run has returned.
C10_RunTerminates ==
  (runpc = "starting") ~>
    (runpc = "returned" /\ \A i \in Threads : i < threads => pc[i] = "Done")

C10_Witness ==
  /\ runpc = "returned"
  /\ threads >= 2
  /\ \A i \in Threads : i < threads => appended[i] # <<>>

\* the text run was called with is empty or has whitespace only
WhitespaceOnly(text) ==
  /\ text # NoText
  /\ \A k \in 1..Len(text) : \A m \in 1..Len(text[k]) : text[k][m] = WS

\* nothing of the pipeline has happened: no sentence list, no thread, no call
NothingStarted ==
  /\ sentences = <<>>
  /\ threads = 0
  /\ \A i \in Threads : pc[i] = "NotStarted" /\ requests[i] = <<>>

C11_BlankState ==
  WhitespaceOnly(text_to_process) =>
    /\ runpc \in {"called", "returned"}
    /\ NothingStarted
    /\ runpc = "returned" => unique_claims = <<>>

C11_BlankStep ==
  (runpc = "called" /\ WhitespaceOnly(text_to_process)) =>
    /\ runpc' = "returned"
    /\ unique_claims' = <<>>
    /\ UNCHANGED <<text_to_process, sentences, threads, pc, requests>>

\* C11: when run is called with an empty or whitespace-only text, its one
\* step is to return the empty sequence; the text is not segmented, no worker
\* is started and no completion call is made, then or later.
C11_BlankReturnsEmpty == []C11_BlankState /\ [][C11_BlankStep]_vars

C11_Witness ==
  /\ runpc = "returned"
  /\ text_to_process = <<<<WS>>, <<>>>>
  /\ unique_claims = <<>>
  /\ NothingStarted

\* the position at which a text first occurs in a list
FirstIndex(list, x) ==
  CHOOSE k \in 1..Len(list) :
    list[k] = x /\ \A j \in 1..(k - 1) : list[j] # x

\* C12: what run returns has exactly the texts of the accumulated list, each
\* once, in the order in which they first occur in that list.
C12_FirstOccurrenceOrder ==
  runpc = "returned" =>
    /\ Range(unique_claims) = Range(all_claims)
    /\ \A j, k \in 1..Len(unique_claims) :
         j < k =>
           /\ unique_claims[j] # unique_claims[k]
           /\ FirstIndex(all_claims, unique_claims[j])
                < FirstIndex(all_claims, unique_claims[k])

C12_Witness ==
  /\ runpc = "returned"
  /\ all_claims = <<"c1", "c2", "c1">>
  /\ unique_claims = <<"c1", "c2">>

\* C13: for a list of N >= 1 sentences, an index i in 0..N-1 and window
\* sizes p, f >= 0, every line of the excerpt is a sentence of the list at an
\* index inside both 0..N-1 and i-p..i+f; the sentence i itself is among them;
\* for i = 0 the excerpt starts with sentence 0 and for i = N-1 it ends with
\* sentence N-1; the result is these lines joined.
C13_ExcerptWithinList ==
  call.fn = "create_context_for_sentence" =>
    LET N   == Len(call.sentences)
        i   == call.index
        ctx == call.context_sentences
    IN  /\ \A k \in 1..Len(ctx) :
             \E j \in 0..(N - 1) :
               /\ ctx[k] = call.sentences[j + 1]
               /\ i - call.p <= j
               /\ j <= i + call.f
        /\ call.sentences[i + 1] \in Range(ctx)
        /\ i = 0 => ctx[1] = call.sentences[1]
        /\ i = N - 1 => ctx[Len(ctx)] = call.sentences[N]
        /\ call.result = JoinLines(ctx)

\* the window reaches past both ends of the list and is cut at both
C13_Witness ==
  /\ call.fn = "create_context_for_sentence"
  /\ call.sentences = <<"s1", "s2", "s3">>
  /\ call.index = 1
  /\ call.p = 3
  /\ call.f = 3
  /\ call.result = "s1\ns2\ns3"

\* the texts that the responses carry only in claim objects with
\* verifierbar = False
UnverifiableTexts ==
  {t \in {"c1", "c2", "c3"} :
     \A l \in ClaimLists : \A k \in 1..Len(l) :
       l[k].text = t => ~l[k].verifierbar}

\* C14: the text of a claim object that came back with verifierbar = False
\* is not among the claims a worker extracts, not in all_claims and not in
\* what run returns.
C14_OnlyVerifiableEmitted ==
  /\ \A i \in Threads :
       (pc[i] = "Decomposed" /\ structured_response[i].kind = "parsed") =>
         \A k \in 1..Len(structured_response[i].slutgiltiga_pastaenden) :
           ~structured_response[i].slutgiltiga_pastaenden[k].verifierbar =>
             structured_response[i].slutgiltiga_pastaenden[k].text
               \notin Range(extracted_claims[i])
  /\ Range(all_claims) \cap UnverifiableTexts = {}
  /\ Range(unique_claims) \cap UnverifiableTexts = {}

\* the worker is inside a completion call
InCall(i) == pc[i] \in {"Selecting", "Disambiguating", "Decomposing"}

\* C15 as stated: a completion call that throws is absorbed by the stage
\* function, which returns its failure outcome ('error', 'error', []); the
\* exception does not reach the except clause of the worker.
C15_StageAbsorbsException ==
  \A i \in Threads :
    /\ ~caught[i]
    /\ (pc[i] = "Done" /\ Len(requests[i]) = 1) =>
         selection_status[i] \in {"unverifiable", "error"}
    /\ (pc[i] = "Done" /\ Len(requests[i]) = 2) =>
         disambiguation_status[i] \in {"unresolvable", "error"}

C15_RaisedState ==
  \A i \in Threads :
    caught[i] =>
      /\ pc[i] = "Done"
      /\ Len(requests[i]) >= 1
      /\ Len(requests[i]) = 1 => selection_status[i] = None
      /\ Len(requests[i]) = 2 => disambiguation_status[i] = None
      /\ extracted_claims[i] = <<>>
      /\ appended[i] = <<>>

C15_RaisedStep ==
  \A i \in Threads :
    (~caught[i] /\ caught'[i]) =>
      /\ InCall(i)
      /\ UNCHANGED <<selection_status, verifiable_sentence,
                     disambiguation_status, clarified_sentence,
                     extracted_claims, all_claims, requests>>

\* C15 (amended): when a completion call throws, the stage function does not
\* absorb it: the exception leaves the stage and is caught by the except
\* clause of the worker.  The stage assigns no outcome (its status stays
\* unset), the worker ends, makes no further call and appends nothing.
C15_ExceptionLeavesStage == []C15_RaisedState /\ [][C15_RaisedStep]_vars

C15_Witness ==
  \E i \in Threads :
    /\ caught[i]
    /\ Len(requests[i]) = 2
    /\ selection_status[i] = "verifiable"
    /\ disambiguation_status[i] = None

\* C16: run never ends with an exception, whatever fails: the tokenizer,
\* the start of a thread or a completion call.
C16_RunNeverRaises == runpc # "raised"

\* the sentence of worker i was filtered out or failed at some stage
YieldsNothing(i) ==
  \/ selection_status[i] # "verifiable"
  \/ disambiguation_status[i] # "resolved"
  \/ extracted_claims[i] = <<>>

\* C17: when the text has sentences and every one of them is filtered out or
\* fails (Selection not 'verifiable', or Disambiguation not 'resolved', or
\* no claim extracted), run returns normally and what it returns is empty.
C17_AllFilteredReturnsEmpty ==
  (/\ runpc \in {"joining", "returned"}
   /\ threads > 0
   /\ \A i \in Threads : i < threads => (pc[i] = "Done" /\ YieldsNothing(i)))
  => /\ all_claims = <<>>
     /\ unique_claims = <<>>
     /\ runpc = "joining" => ENABLED Next

C17_Witness ==
  /\ runpc = "returned"
  /\ threads = 2
  /\ \A i \in Threads : selection_status[i] = "unverifiable"
  /\ unique_claims = <<>>

C18_PendingState ==
  \A i \in Threads :
    InCall(i) =>
      /\ runpc # "returned"
      /\ joined <= i
      /\ unique_claims = <<>>
      /\ (runpc = "joining" /\ joined = i) =>
           (~ENABLED JoinThread /\ ~ENABLED RunReturn)

C18_PendingStep ==
  \A i \in Threads :
    (InCall(i) /\ pc'[i] # pc[i]) =>
      (structured_response'[i] # NoResponse \/ caught'[i])

\* C18: while a completion call of a worker has not returned, the worker
\* stays where it is (the only step that moves it is the end of the call,
\* with a response or an exception: no timeout, no cancellation), run has
\* not joined it and cannot, run has not returned, and nothing of all_claims
\* has been returned, whatever other workers have appended.  A call that
\* never returns therefore keeps the worker and run from ever ending.
C18_HungCallBlocksRun == []C18_PendingState /\ [][C18_PendingStep]_vars

C18_Witness ==
  /\ runpc = "joining"
  /\ joined = 0
  /\ pc[0] = "Disambiguating"
  /\ pc[1] = "Done"
  /\ all_claims # <<>>
  /\ ~ENABLED Run

C20_WorkersState ==
  /\ threads <= Len(sentences)
  /\ runpc \in {"joining", "returned"} => threads = Len(sentences)
  /\ \A i \in Threads :
       /\ i < threads <=> pc[i] # "NotStarted"
       /\ Len(requests[i]) <= 3
       /\ \A k \in 1..Len(requests[i]) :
            requests[i][k].stage =
              <<"selection", "disambiguation", "decomposition">>[k]
       /\ requests[i] # <<>> => requests[i][1].sentence = sentences[i + 1]

C20_WorkersStep ==
  \A i \in Threads :
    /\ (pc[i] = "NotStarted" /\ pc'[i] # "NotStarted") =>
         (i = threads /\ threads' = threads + 1 /\ pc'[i] = "Start")
    /\ pc[i] # "NotStarted" =>
         (pc'[i] = pc[i] \/ pc'[i] \notin {"NotStarted", "Start"})
    /\ threads' \in {threads, threads + 1}

\* C20: for a list of N sentences run starts workers for the indices 0, 1,
\* ... one at a time and has started exactly N when the loop is over; a
\* worker is started once, works on the sentence at its own index and makes
\* each stage's call at most once; no index is skipped.  Nothing limits how
\* many of them run at the same time (the witness has all of them inside
\* their Selection call together).
C20_OneWorkerPerSentence == []C20_WorkersState /\ [][C20_WorkersStep]_vars

C20_Witness ==
  /\ Len(sentences) = MaxSentences
  /\ threads = MaxSentences
  /\ \A i \in Threads :
       /\ pc[i] = "Selecting"
       /\ requests[i][1].sentence = SentenceNames[i + 1]

\* the positions a worker can move to from each position (Done from every
\* one: a return, or an exception caught by the except clause)
C21_Successors ==
  [NotStarted     |-> {"Start"},
   Start          |-> {"Selecting", "Done"},
   Selecting      |-> {"Selected", "Done"},
   Selected       |-> {"Disambiguating", "Done"},
   Disambiguating |-> {"Disambiguated", "Done"},
   Disambiguated  |-> {"Decomposing", "Done"},
   Decomposing    |-> {"Decomposed", "Done"},
   Decomposed     |-> {"InAppend", "Done"},
   InAppend       |-> {"Done"},
   Done           |-> {}]

C21_CallsState ==
  \A i \in Threads :
    /\ Len(requests[i]) <= 3
    /\ \A k \in 1..Len(requests[i]) :
         requests[i][k].stage =
           <<"selection", "disambiguation", "decomposition">>[k]
    /\ Len(requests[i]) >= 2 => selection_status[i] = "verifiable"
    /\ Len(requests[i]) >= 3 => disambiguation_status[i] = "resolved"

C21_CallsStep ==
  \A i \in Threads :
    /\ pc'[i] # pc[i] => pc'[i] \in C21_Successors[pc[i]]
    /\ requests'[i] # requests[i] =>
         /\ Len(requests'[i]) = Len(requests[i]) + 1
         /\ SubSeq(requests'[i], 1, Len(requests[i])) = requests[i]
         /\ pc'[i] \in {"Selecting", "Disambiguating", "Decomposing"}
    /\ (pc'[i] = "Disambiguating" /\ pc[i] # "Disambiguating") =>
         (pc[i] = "Selected" /\ selection_status[i] = "verifiable")
    /\ (pc'[i] = "Decomposing" /\ pc[i] # "Decomposing") =>
         (pc[i] = "Disambiguated" /\ disambiguation_status[i] = "resolved")

\* C21: a worker moves along Start, Selecting, Disambiguating, Decomposing,
\* Done only forwards; it makes at most one call per stage, in that order
\* (so at most 3 calls for its sentence); it enters the Disambiguation call
\* only from a Selection outcome 'verifiable' and the Decomposition call only
\* from a Disambiguation outcome 'resolved'.
C21_StagesInOrder == []C21_CallsState /\ [][C21_CallsStep]_vars

C21_Witness ==
  \E i \in Threads :
    /\ pc[i] = "Done"
    /\ Len(requests[i]) = 3
    /\ appended[i] # <<>>

\* worker i has the parsed Selection response in hand, interpreted
SelectionInterpreted(i) ==
  pc[i] = "Selected" /\ structured_response[i].kind = "parsed"

\* C22: a Selection response with the negative verdict is interpreted as
\* ('unverifiable', None), whatever its field holds (None, the empty string,
\* the sentinel in either spelling, a rewritten sentence).
C22_NegativeVerdictUnverifiable ==
  \A i \in Threads :
    (SelectionInterpreted(i)
       /\ structured_response[i].slutlig_bedomning = NEGATIVE) =>
      /\ selection_status[i] = "unverifiable"
      /\ verifiable_sentence[i] = None

C22_Witness ==
  \E i \in Threads :
    /\ SelectionInterpreted(i)
    /\ structured_response[i].slutlig_bedomning = NEGATIVE
    /\ structured_response[i].mening_med_endast_verifierbar_info = "r1"
    /\ selection_status[i] = "unverifiable"

\* worker i holds a parsed Selection response with the positive verdict
\* and a field that is not None
PositiveWithField(i) ==
  /\ SelectionInterpreted(i)
  /\ structured_response[i].slutlig_bedomning = POSITIVE
  /\ structured_response[i].mening_med_endast_verifierbar_info # None

\* the 'unchanged' sentinel, in any spelling of its letters
IsUnchangedSentinel(field) ==
  field \in {"förblir oförändrad", "Förblir oförändrad"}

\* C23 as stated: positive verdict and non-null field give 'verifiable';
\* the payload is the original sentence for the sentinel and the field's own
\* string for every other string.
C23_PayloadIsFieldUnlessSentinel ==
  \A i \in Threads :
    PositiveWithField(i) =>
      LET field == structured_response[i].mening_med_endast_verifierbar_info
      IN  /\ selection_status[i] = "verifiable"
          /\ IsUnchangedSentinel(field) =>
               verifiable_sentence[i] = sentences[i + 1]
          /\ ~IsUnchangedSentinel(field) => verifiable_sentence[i] = field

\* C23 (amended): positive verdict and non-null field give 'verifiable'; the
\* payload is the original sentence when the field is the sentinel (compared
\* without regard to letter case) or the empty string, and the field's own
\* string for every other string.
C23_EmptyFieldKeepsSentence ==
  \A i \in Threads :
    PositiveWithField(i) =>
      LET field == structured_response[i].mening_med_endast_verifierbar_info
      IN  /\ selection_status[i] = "verifiable"
          /\ verifiable_sentence[i] =
               IF IsUnchangedSentinel(field) \/ field = ""
               THEN sentences[i + 1] ELSE field

C23_Witness ==
  \E i \in Threads :
    /\ PositiveWithField(i)
    /\ structured_response[i].mening_med_endast_verifierbar_info = ""
    /\ selection_status[i] = "verifiable"
    /\ verifiable_sentence[i] = sentences[i + 1]

\* worker i has the parsed Disambiguation response in hand, interpreted
DisambiguationInterpreted(i) ==
  pc[i] = "Disambiguated" /\ structured_response[i].kind = "parsed"

\* C24 as stated: the sentinel and None give ('unresolvable', None), every
\* other value of the field gives 'resolved' with that value as payload.
C24_OtherValuesResolved ==
  \A i \in Threads :
    DisambiguationInterpreted(i) =>
      LET field == structured_response[i].avkontextualiserad_mening
      IN  IF field \in {CANNOT_SENTINEL, None}
          THEN /\ disambiguation_status[i] = "unresolvable"
               /\ clarified_sentence[i] = None
          ELSE /\ disambiguation_status[i] = "resolved"
               /\ clarified_sentence[i] = field

\* C24 (amended): the sentinel, None and the empty string give
\* ('unresolvable', None); every other value of the field gives 'resolved'
\* with that value as payload.
C24_EmptyFieldUnresolvable ==
  \A i \in Threads :
    DisambiguationInterpreted(i) =>
      LET field == structured_response[i].avkontextualiserad_mening
      IN  IF field \in {"Kan inte avkontextualiseras", None, ""}
          THEN /\ disambiguation_status[i] = "unresolvable"
               /\ clarified_sentence[i] = None
          ELSE /\ disambiguation_status[i] = "resolved"
               /\ clarified_sentence[i] = field

C24_Witness ==
  \E i, j \in Threads :
    /\ DisambiguationInterpreted(i)
    /\ structured_response[i].avkontextualiserad_mening = ""
    /\ disambiguation_status[i] = "unresolvable"
    /\ DisambiguationInterpreted(j)
    /\ structured_response[j].avkontextualiserad_mening = "d1"
    /\ clarified_sentence[j] = "d1"

\* C25: the Selection call is made with the worker's own sentence, the
\* Disambiguation call with the payload of the Selection outcome (the
\* original sentence or Selection's rewrite), the Decomposition call with
\* the payload of the Disambiguation outcome; no call carries None as its
\* sentence.
C25_PayloadsChained ==
  \A i \in Threads :
    /\ \A k \in 1..Len(requests[i]) : requests[i][k].sentence # None
    /\ Len(requests[i]) >= 1 => requests[i][1].sentence = sentences[i + 1]
    /\ Len(requests[i]) >= 2 =>
         /\ requests[i][2].sentence = verifiable_sentence[i]
         /\ verifiable_sentence[i] \in {sentences[i + 1], "r1"}
    /\ Len(requests[i]) >= 3 =>
         /\ requests[i][3].sentence = clarified_sentence[i]
         /\ clarified_sentence[i] = "d1"

C25_Witness ==
  \E i \in Threads :
    /\ Len(requests[i]) = 3
    /\ requests[i][1].sentence = "s1"
    /\ requests[i][2].sentence = "r1"
    /\ requests[i][3].sentence = "d1"

\* C26: the excerpt is made of exactly the sentences with the indices
\* max(0, i-p) .. min(N, i+f+1)-1, in the order of the list, joined by
\* newlines; sentence i is among them and there are at most p+f+1 of them.
C26_ExactSlice ==
  call.fn = "create_context_for_sentence" =>
    LET N   == Len(call.sentences)
        i   == call.index
        lo  == IF i - call.p > 0 THEN i - call.p ELSE 0
        hi  == IF i + call.f + 1 < N THEN i + call.f + 1 ELSE N
        ctx == call.context_sentences
    IN  /\ Len(ctx) = hi - lo
        /\ \A k \in 1..Len(ctx) : ctx[k] = call.sentences[lo + k]
        /\ lo <= i /\ i < hi
        /\ ctx[i - lo + 1] = call.sentences[i + 1]
        /\ Len(ctx) <= call.p + call.f + 1
        /\ call.result = JoinLines(ctx)

\* the window is cut at neither end
C26_Witness ==
  /\ call.fn = "create_context_for_sentence"
  /\ call.sentences = <<"s1", "s2", "s3", "s4">>
  /\ call.index = 2
  /\ call.p = 1
  /\ call.f = 0
  /\ call.result = "s2\ns3"

C27_ExcerptState ==
  \A i \in Threads :
    /\ context_excerpt[i] # None =>
         context_excerpt[i] = create_context_for_sentence(sentences, i, 5, 5)
    /\ \A k \in 1..Len(requests[i]) :
         /\ context_excerpt[i] # None
         /\ requests[i][k].excerpt = context_excerpt[i]

C27_ExcerptStep ==
  \A i \in Threads :
    context_excerpt'[i] # context_excerpt[i] =>
      /\ pc[i] = "Start"
      /\ context_excerpt[i] = None
      /\ \A j \in Threads \ {i} :
           /\ context_excerpt'[j] = context_excerpt[j]
           /\ pc'[j] = pc[j]
           /\ requests'[j] = requests[j]

HasBlock(list, block) ==
  \E off \in 0..(Len(list) - Len(block)) :
    SubSeq(list, off + 1, off + Len(block)) = block

\* C28: what a worker extracts from a parsed Decomposition response is the
\* text of each claim object, one entry per object, in the order of the
\* response, equal texts kept; what it appends to all_claims is that list,
\* in that order, as one run of entries.
C28_TextsInResponseOrder ==
  \A i \in Threads :
    /\ (pc[i] = "Decomposed" /\ structured_response[i].kind = "parsed") =>
         LET l == structured_response[i].slutgiltiga_pastaenden
         IN  /\ Len(extracted_claims[i]) = Len(l)
             /\ \A k \in 1..Len(l) : extracted_claims[i][k] = l[k].text
    /\ appended[i] # <<>> =>
         /\ appended[i] = extracted_claims[i]
         /\ HasBlock(all_claims, appended[i])

C28_Witness ==
  \E i, j \in Threads :
    /\ appended[i] = <<"c1", "c1">>
    /\ pc[j] = "Decomposed"
    /\ structured_response[j].kind = "parsed"
    /\ extracted_claims[j] = <<"c2", "c1">>

\* what process_sentence does with one sentence, as a function of the
\* sentence and of the responses to its own calls alone: the sentences of
\* its second and third call (None where the call is not made) and the
\* claims it appends
OwnOutcome(sentence, rs) ==
  LET ok(k)  == Len(rs) >= k /\ rs[k].kind # "raise"
      sel    == IF ok(1) THEN run_selection_stage(rs[1], sentence)
                ELSE <<None, None>>
      second == ok(1) /\ sel[1] = "verifiable"
      dis    == IF second /\ ok(2) THEN run_disambiguation_stage(rs[2], sel[2])
                ELSE <<None, None>>
      third  == second /\ ok(2) /\ dis[1] = "resolved"
  IN  [second |-> IF second THEN sel[2] ELSE None,
       third  |-> IF third THEN dis[2] ELSE None,
       claims |-> IF third /\ ok(3) THEN run_decomposition_stage(rs[3])
                  ELSE <<>>]

\* C29: what the worker of sentence i calls and appends is a function of its
\* sentence (with the excerpt built from the text) and of the responses to
\* its own calls: once Done, the sentences of its calls and the claims it
\* has appended are those of OwnOutcome, whatever the other workers were
\* given and however they were scheduled; before that it has appended
\* nothing or the same.
C29_OwnResponsesDecide ==
  \A i \in Threads :
    (record /\ pc[i] # "NotStarted") =>
      LET own == OwnOutcome(sentences[i + 1], responses[i])
      IN  /\ appended[i] \in {<<>>, own.claims}
          /\ pc[i] = "Done" =>
               /\ appended[i] = own.claims
               /\ Len(responses[i]) = Len(requests[i])
               /\ [k \in 1..Len(requests[i]) |-> requests[i][k].sentence]
                    = SubSeq(<<sentences[i + 1], own.second, own.third>>,
                             1, Len(requests[i]))
               /\ Len(requests[i]) >= 2 <=> own.second # None
               /\ Len(requests[i]) >= 3 <=> own.third # None

\* one worker has appended its claims, the other one's call raised
C29_Witness ==
  /\ record
  /\ pc[0] = "Done"
  /\ pc[1] = "Done"
  /\ appended[0] = <<"c2", "c1">>
  /\ caught[1]
  /\ Len(responses[1]) = 2

C30_EmptyAtStart ==
  (runpc = "starting" /\ threads = 0) => all_claims = <<>>

C30_GrowsByAppending ==
  /\ Len(all_claims) <= Len(all_claims')
  /\ SubSeq(all_claims', 1, Len(all_claims)) = all_claims

\* C30: all_claims is empty when run begins to start its workers, and in
\* every step what it held before is a prefix of what it holds after: no
\* entry is changed, removed or moved.
C30_AppendOnly == []C30_EmptyAtStart /\ [][C30_GrowsByAppending]_vars

\* a second worker has appended behind the first
C30_Witness ==
  \E i, j \in Threads :
    /\ i # j
    /\ appended[i] = <<"c1">>
    /\ appended[j] = <<"c2", "c1">>
    /\ all_claims = <<"c1", "c2", "c1">>
    /\ runpc = "joining"

\* C31: when punkt_tab is not installed, then for every outcome of the first
\* download (and with a second download that does not raise)
\* ensure_nltk_data and split_into_sentences complete without raising.
C31_FallsBackInsteadOfFailing ==
  (/\ call.fn = "split_into_sentences"
   /\ "punkt_tab" \notin call.env.installed
   /\ call.env.second # "raise")
  => (~call.ensured.raised /\ call.result.kind = "ok")

\* the texts of the claim objects of the Decomposition response of worker i,
\* if its Selection response was interpreted as verifiable and its
\* Disambiguation response as resolved
DecomposedTexts(i) ==
  LET rs == responses[i]
  IN  IF /\ Len(rs) = 3
         /\ \A k \in 1..3 : rs[k].kind # "raise"
         /\ run_selection_stage(rs[1], sentences[i + 1])[1] = "verifiable"
         /\ run_disambiguation_stage(rs[2],
              run_selection_stage(rs[1], sentences[i + 1])[2])[1] = "resolved"
         /\ rs[3].kind = "parsed"
      THEN {rs[3].slutgiltiga_pastaenden[k].text :
              k \in 1..Len(rs[3].slutgiltiga_pastaenden)}
      ELSE {}

\* the strings given to or returned by Selection and Disambiguation
StagePayloads ==
  Range(sentences)
    \cup ((SelectionFields \cup DisambiguationFields) \ {None})

\* C32: every string run returns is the text of a claim object of a
\* Decomposition response of this run, made for a sentence whose Selection
\* was verifiable and whose Disambiguation was resolved; it is never an
\* original sentence or a Selection or Disambiguation payload.
C32_OnlyDecomposedTexts ==
  (record /\ runpc = "returned") =>
    \A k \in 1..Len(unique_claims) :
      /\ \E i \in Threads :
           i < Len(sentences) /\ unique_claims[k] \in DecomposedTexts(i)
      /\ unique_claims[k] \notin StagePayloads

\* run has returned the claims of one sentence; the other sentence was
\* rewritten by Selection and stopped at Disambiguation
C32_Witness ==
  /\ record
  /\ runpc = "returned"
  /\ unique_claims = <<"c2", "c1">>
  /\ \E i \in Threads :
       /\ Len(responses[i]) = 2
       /\ responses[i][1].kind = "parsed"
       /\ disambiguation_status[i] = "unresolvable"

\* the claims of the first n sentences, sentence by sentence, each
\* sentence's as its own responses decide them
RECURSIVE ClaimsInSentenceOrder(_)
ClaimsInSentenceOrder(n) ==
  IF n = 0 THEN <<>>
  ELSE ClaimsInSentenceOrder(n - 1)
         \o OwnOutcome(sentences[n], responses[n - 1]).claims

\* C33: for a fixed text and fixed responses to each call, run returns the
\* same sequence (entries and order) under every interleaving of the
\* workers. The workers may run one after the other in sentence order, so
\* that sequence is the one of that interleaving: the first occurrences of
\* the claims taken sentence by sentence.
C33_SameResultUnderEveryInterleaving ==
  (record /\ runpc = "returned") =>
    unique_claims = dict_fromkeys(ClaimsInSentenceOrder(Len(sentences)))

\* the same text and responses, returned in the order of the sentences
C33_InSentenceOrder ==
  /\ record
  /\ runpc = "returned"
  /\ appended = [i \in Threads |-> IF i = 0 THEN <<"c1">> ELSE <<"c2", "c1">>]
  /\ unique_claims = <<"c1", "c2">>

\* and in the order in which the workers reached the append
C33_InAppendOrder ==
  /\ record
  /\ runpc = "returned"
  /\ appended = [i \in Threads |-> IF i = 0 THEN <<"c1">> ELSE <<"c2", "c1">>]
  /\ unique_claims = <<"c2", "c1">>

\* the orders in which the workers can have appended
AppendOrders ==
  {order \in [1..MaxSentences -> Threads] :
     \A a, b \in 1..MaxSentences : a # b => order[a] # order[b]}

\* what the first n workers of order have appended, block after block
RECURSIVE Blocks(_, _)
Blocks(order, n) ==
  IF n = 0 THEN <<>> ELSE Blocks(order, n - 1) \o appended[order[n]]

\* C34: what one worker has appended is its extracted claims, in the order
\* of its Decomposition response, and all_claims is these blocks put one
\* after the other in some order of the workers: the claims of two workers
\* are never interleaved.
C34_OneBlockPerWorker ==
  /\ \A i \in Threads : appended[i] \in {<<>>, extracted_claims[i]}
  /\ \E order \in AppendOrders : all_claims = Blocks(order, MaxSentences)

\* two workers have each appended more than one claim
C34_Witness ==
  \E i, j \in Threads :
    /\ i # j
    /\ appended[i] = <<"c1", "c1">>
    /\ appended[j] = <<"c2", "c1">>
    /\ all_claims = <<"c2", "c1", "c1", "c1">>

\* worker i is at `with all_claims_lock:` and has not entered it
WaitsForLock(i) == pc[i] = "Decomposed" /\ extracted_claims[i] # <<>>

\* C35: a worker that has terminated, normally or through the exception
\* handler (also when the exception was raised inside the with block), does
\* not hold the lock; the lock is held only by a worker inside the with
\* block, which can leave it; so a worker waiting for the lock can enter or
\* the holder can release it, and the lock is free when run reads
\* all_claims and when it has returned.
C35_LockAlwaysReleased ==
  /\ \A i \in Threads :
       /\ pc[i] = "Done" => i \notin all_claims_lock
       /\ i \in all_claims_lock =>
            (pc[i] = "InAppend" /\ ENABLED ExtendClaims(i))
       /\ WaitsForLock(i) =>
            \/ ENABLED AcquireLock(i)
            \/ \E j \in all_claims_lock : ENABLED ExtendClaims(j)
  /\ (runpc = "joining" /\ joined = threads) => all_claims_lock = {}
  /\ runpc = "returned" => all_claims_lock = {}

\* a worker ended in the exception handler with claims it never appended,
\* and another worker has entered the with block after it
C35_Witness ==
  \E i, j \in Threads :
    /\ pc[i] = "Done"
    /\ caught[i]
    /\ extracted_claims[i] # <<>>
    /\ appended[i] = <<>>
    /\ pc[j] = "InAppend"
    /\ all_claims_lock = {j}

\* the sum of calls_made over the threads 0..(n - 1)
RECURSIVE CallsMade(_)
CallsMade(n) == IF n = 0 THEN 0 ELSE CallsMade(n - 1) + calls_made[n - 1]

\* after all calls have finished call_count is the number of calls made
C36_NoIncrementLost ==
  (\A i \in Threads : client_pc[i] = "idle") =>
    call_count = CallsMade(MaxSentences)

\* the number a finished call logged at its end is the one it logged at its
\* start
C36_EndNumberIsStartNumber ==
  \A i \in Threads :
    (client_pc[i] = "idle" /\ calls_made[i] > 0) =>
      end_number[i] = start_number[i]

\* C36: with several threads calling make_structured_request on one shared
\* client, after all calls have finished call_count equals the number of
\* calls made, and the call number a call logs at its end is the number it
\* was given at its start.
C36_CallNumbersConsistent ==
  C36_NoIncrementLost /\ C36_EndNumberIsStartNumber

====
